---- MODULE Spec2Model ----
(***************************************************************************)
(* Model of go-chunk-update: the range initializer (GetUniqueKeyRange) and *)
(* the chunk driver (ChunkUpdate) of internal/chunk/chunk.go, run against  *)
(* one database session.  The table is a finite set of unique key tuples;  *)
(* the four session-variable vectors min/max/start/end live on the server. *)
(* Every statement sent to the server is one step and may be answered by a *)
(* driver error.  A chunk statement is modelled by the set of rows its     *)
(* substituted range predicate selects; it does not change key values and  *)
(* touches only rows below the window end, so the probes see the same rows *)
(* as if the table were unchanged.                                         *)
(* Spec runs the engine alone; SpecMain runs runChunkUpdate around it      *)
(* (validation, connection, key discovery, lock, exit); SpecKey runs       *)
(* GetSelectedUniqueKeyColumnNames alone over forced specifications and    *)
(* unique-key query results; SpecPool adds the replacement of a lost       *)
(* connection by the pool; SpecTwin runs the engine twice in a row;        *)
(* SpecProgress runs it over wide key ranges for the float64 arithmetic of *)
(* the progress line; SpecSeed runs it with sub-statement seeds.           *)
(***************************************************************************)
EXTENDS Integers, Sequences, FiniteSets, TLC

VARIABLES table, cfg, pc, sessMin, sessMax, sessStart, sessEnd,
          minVal, maxVal, firstRound, probeRow, overflow, totalAffected,
          iter, chunks, ends, stmts, faults, err,
          opts, schema, tableName, connected, unlockDeferred, exitCode,
          output, selected, reconnects, reserved, firstRun

vars == <<table, cfg, pc, sessMin, sessMax, sessStart, sessEnd,
          minVal, maxVal, firstRound, probeRow, overflow, totalAffected,
          iter, chunks, ends, stmts, faults, err,
          opts, schema, tableName, connected, unlockDeferred, exitCode,
          output, selected, reconnects, reserved, firstRun>>

\* state of runChunkUpdate around the two engine calls
mainVars == <<opts, schema, tableName, connected, unlockDeferred, exitCode,
              output, selected, reconnects, reserved, firstRun>>

\* ---------------------------------------------------------------- bounds
\* single-column keys are drawn from 1..MaxKey
MaxKey == 4
\* each column of a composite key is drawn from 1..MaxCol
MaxCol == 2
\* chunk sizes are drawn from 0..MaxChunk
MaxChunk == 3
\* forced column specifications have at most MaxForced atoms
MaxForced == 3
\* the pool replaces its connection at most MaxReconnects times in a run
MaxReconnects == 1

\* ------------------------------------------------------- tuple comparison
\* MySQL row comparison (a,b) < (c,d): lexicographic
RECURSIVE LexLess(_, _)
LexLess(x, y) ==
    IF x = <<>> \/ y = <<>> THEN FALSE
    ELSE \/ Head(x) < Head(y)
         \/ Head(x) = Head(y) /\ LexLess(Tail(x), Tail(y))

LexLeq(x, y) == x = y \/ LexLess(x, y)

\* "ORDER BY c1,...,ck": ascending on every column
AscFirst(S) == CHOOSE r \in S : \A q \in S : LexLeq(r, q)

\* "ORDER BY c1,...,ck DESC": DESC binds to the last column only, the
\* columns before it stay ascending
DescBefore(x, y) ==
    LET n == Len(x)
        px == SubSeq(x, 1, n - 1)
        py == SubSeq(y, 1, n - 1)
    IN  \/ LexLess(px, py)
        \/ px = py /\ x[n] > y[n]

DescFirst(S) == CHOOSE r \in S : \A q \in S : r = q \/ DescBefore(r, q)

\* "ORDER BY key LIMIT n": the n first rows of S in ascending order
LimitAsc(S, n) == {r \in S : Cardinality({q \in S : LexLess(q, r)}) < n}

\* ------------------------------------------------------------ the driver
DriverErrors == {"E1", "E2"}
NoRow == <<>>
Unset == <<>>

\* the process is still running
NotExited == <<>>

\* a session variable that was never assigned reads as NULL, which the
\* driver hands over as nil
Nil == -1

\* variant: the read does not see the variable and returns nil
ReadValueNull(v) == Nil

\* row[name] of getSessionVariableValue for column 0 of a vector
ReadValue(v) == IF v = Unset THEN Nil ELSE v[1]

\* GetSelectedUniqueKeyColumnNames returning "", 0, ""
NoKey == [names |-> <<>>, count |-> 0, type |-> ""]

Halted == pc \in {"done", "failed", "norange"}

\* the statements ops reached the server and succeeded
Issue(ops) ==
    /\ stmts' = stmts \o ops
    /\ UNCHANGED faults

\* variant: the failing statement is tried again instead of returning
OnErrorRetry(e) ==
    /\ e \in DriverErrors
    /\ UNCHANGED <<err, pc>>

\* every "if err != nil { return err }": the error is returned as it is
\* and nothing else is done
OnError(e) ==
    /\ err' = e
    /\ pc' = "failed"

\* the statements ops reached the server and the driver answered the last
\* of them with the error e
Fail(ops, e) ==
    /\ stmts' = stmts \o ops
    /\ faults' = Append(faults, [at |-> Len(stmts) + Len(ops), e |-> e])
    /\ OnError(e)

\* ------------------------------------------------------------------ Init
\* --sleep-ratio, --terminate-on-not-found, --skip-retry-chunk as the flags
\* leave them when they are not given
DefaultReserved ==
    [SleepRatio |-> 0, TerminateOnNotFound |-> FALSE, SkipRetryChunk |-> FALSE]

\* no earlier run has been recorded
NotRun == [ran |-> FALSE]

KeySpace(k) ==
    IF k = 1 THEN {<<a>> : a \in 1..MaxKey}
    ELSE {<<a, b>> : a \in 1..MaxCol, b \in 1..MaxCol}

\* --start-with / --end-with: absent, or an integer literal
Seeds == {[kind |-> "none", val |-> 0]}
         \cup {[kind |-> "int", val |-> n] : n \in 0..(MaxKey + 1)}

Configs ==
    {c \in [UniqueKeyColumnNames : {<<"id">>, <<"a", ",", "b">>},
            CountColumnsInUniqueKey : {1, 2},
            UniqueKeyType : {"integer", ""},
            ChunkSize : 0..MaxChunk,
            StartWith : Seeds,
            EndWith : Seeds,
            NoLogBin : BOOLEAN] :
        \* a composite key with a seed is refused whatever the seed is: one
        \* seed value stands for all of them
        /\ (c.CountColumnsInUniqueKey = 2 \/ c.UniqueKeyType = "")
              => /\ c.StartWith.val = 0
                 /\ c.EndWith.val = 0
        /\ c.CountColumnsInUniqueKey = 2 => c.UniqueKeyType = "integer"
        /\ c.UniqueKeyColumnNames = <<"id">> <=> c.CountColumnsInUniqueKey = 1}

Init ==
    /\ cfg \in Configs
    /\ table \in SUBSET KeySpace(cfg.CountColumnsInUniqueKey)
    /\ pc = "range_min"
    /\ sessMin = Unset
    /\ sessMax = Unset
    /\ sessStart = Unset
    /\ sessEnd = Unset
    /\ minVal = 0
    /\ maxVal = 0
    /\ firstRound = TRUE
    /\ probeRow = NoRow
    /\ overflow = FALSE
    /\ totalAffected = 0
    /\ iter = 0
    /\ chunks = <<>>
    /\ ends = <<>>
    /\ stmts = <<>>
    /\ faults = <<>>
    /\ err = "nil"
    /\ opts = [execute |-> <<"DELETE FROM t WHERE ", "GO_CHUNK", "(", "t", ")",
                             " AND flag=0">>,
               database |-> <<"db">>, forceColumn |-> <<>>,
               skipLock |-> TRUE]
    /\ schema = [present |-> TRUE, keyRows |-> <<>>]
    /\ tableName = <<"t">>
    /\ connected = TRUE
    /\ unlockDeferred = FALSE
    /\ exitCode = NotExited
    /\ output = ""
    /\ selected = NoKey
    /\ reconnects = <<>>
    /\ reserved = DefaultReserved
    /\ firstRun = NotRun

loopVars == <<minVal, maxVal, firstRound, probeRow, overflow, totalAffected,
              iter, chunks, ends>>

\* ------------------------------------------------------ GetUniqueKeyRange
\* variant: the key type is not looked at
SeedAllowedAnyType == cfg.CountColumnsInUniqueKey = 1

SeedAllowed ==
    cfg.UniqueKeyType = "integer" /\ cfg.CountColumnsInUniqueKey = 1

\* --start-with / --end-with that strconv.Atoi refuses is run as a
\* statement of its own; what the statement answers: a row whose
\* start_with (end_with) column holds the integer val, a row without that
\* column, a row with a value in it that is not an integer, or no row
SubSeedKinds == {"stmt", "stmt_missing", "stmt_text", "stmt_norow"}

\* row["start_with"].(int64) on a row without the column, or with a value
\* of another type: the type assertion panics
AssertionPanics(seed) == seed.kind \in {"stmt_missing", "stmt_text"}

\* the seed is a sub-statement: QueryRow(seed), the type assertion, and the
\* assignment of its integer to the variables (sess is sessMin or sessMax,
\* op the name of the assignment, after the position the run goes to)
SubSeed(seed, query, op, after, sess) ==
    \/ /\ seed.kind = "stmt"
       /\ Issue(<<query, op>>)
       /\ sess' = <<seed.val>>
       /\ pc' = after
       /\ UNCHANGED err
    \/ /\ seed.kind = "stmt"
       /\ \E e \in DriverErrors : Fail(<<query, op>>, e)
       /\ UNCHANGED sess
    \/ /\ AssertionPanics(seed)
       /\ Issue(<<query>>)
       /\ pc' = "panic"
       /\ UNCHANGED <<sess, err>>
    \/ /\ seed.kind = "stmt_norow"
       /\ Issue(<<query>>)
       /\ pc' = "failed"
       /\ err' = "sql: no rows in result set"
       /\ UNCHANGED sess
    \/ /\ \E e \in DriverErrors : Fail(<<query>>, e)
       /\ UNCHANGED sess

\* lower bound: the literal of --start-with, or the first row in key order
\* (SELECT ... INTO leaves the variables alone when no row is selected)
RangeMin ==
    /\ pc = "range_min"
    /\ UNCHANGED <<table, cfg, mainVars, sessMax, sessStart, sessEnd, loopVars>>
    /\ IF cfg.StartWith.kind # "none" /\ ~SeedAllowed
       THEN /\ pc' = "failed"
            /\ err' = "--start-with only applies to single column integer chunking keys"
            /\ UNCHANGED <<sessMin, stmts, faults>>
       ELSE IF cfg.StartWith.kind \in SubSeedKinds
       THEN SubSeed(cfg.StartWith, "start_with", "set_min", "range_max",
                    sessMin)
       ELSE \/ /\ sessMin' = IF cfg.StartWith.kind # "none"
                              THEN <<cfg.StartWith.val>>
                              ELSE IF table = {} THEN sessMin
                              ELSE AscFirst(table)
               /\ Issue(<<"set_min">>)
               /\ pc' = "range_max"
               /\ UNCHANGED err
            \/ /\ \E e \in DriverErrors : Fail(<<"set_min">>, e)
               /\ UNCHANGED sessMin

\* upper bound: the literal of --end-with, or the first row of
\* ORDER BY <key> DESC
RangeMax ==
    /\ pc = "range_max"
    /\ UNCHANGED <<table, cfg, mainVars, sessMin, sessStart, sessEnd, loopVars>>
    /\ IF cfg.EndWith.kind # "none" /\ ~SeedAllowed
       THEN /\ pc' = "failed"
            /\ err' = "--end-with only applies to single column integer chunking keys"
            /\ UNCHANGED <<sessMax, stmts, faults>>
       ELSE IF cfg.EndWith.kind \in SubSeedKinds
       THEN SubSeed(cfg.EndWith, "end_with", "set_max", "range_exists",
                    sessMax)
       ELSE \/ /\ sessMax' = IF cfg.EndWith.kind # "none"
                              THEN <<cfg.EndWith.val>>
                              ELSE IF table = {} THEN sessMax
                              ELSE DescFirst(table)
               /\ Issue(<<"set_max">>)
               /\ pc' = "range_exists"
               /\ UNCHANGED err
            \/ /\ \E e \in DriverErrors : Fail(<<"set_max">>, e)
               /\ UNCHANGED sessMax

\* emptiness probe; an empty table ends the run without an error
RangeExists ==
    /\ pc = "range_exists"
    /\ UNCHANGED <<table, cfg, mainVars, sessMin, sessMax, sessStart, sessEnd, loopVars>>
    /\ \/ /\ Issue(<<"range_exists">>)
          /\ pc' = IF table # {} THEN "range_read" ELSE "norange"
          /\ UNCHANGED err
       \/ \E e \in DriverErrors : Fail(<<"range_exists">>, e)

\* read-back of min and max, column by column
RangeRead ==
    /\ pc = "range_read"
    /\ UNCHANGED <<table, cfg, mainVars, sessMin, sessMax, sessStart, sessEnd, loopVars>>
    /\ \/ /\ Issue(<<"read_range">>)
          /\ pc' = "cu_logbin"
          /\ UNCHANGED err
       \/ \E e \in DriverErrors : Fail(<<"read_range">>, e)

\* ------------------------------------------------------------ ChunkUpdate
rangeVars == <<sessMin, sessMax, sessStart, sessEnd>>

\* variant: the option is not looked at and the directive never sent
LogBinOffNever == FALSE

\* if c.Config.NoLogBin
LogBinOff == cfg.NoLogBin

\* "SET SESSION SQL_LOG_BIN=0", only when NoLogBin is set
NoLogBinDirective ==
    /\ pc = "cu_logbin"
    /\ LogBinOff
    /\ UNCHANGED <<table, cfg, mainVars, rangeVars, loopVars>>
    /\ \/ /\ Issue(<<"sql_log_bin_0">>)
          /\ pc' = "cu_read_min"
          /\ UNCHANGED err
       \/ \E e \in DriverErrors : Fail(<<"sql_log_bin_0">>, e)

\* minVal, err := getSessionVariableValue("unique_key_min_value_0")
ReadMinVal ==
    /\ \/ pc = "cu_read_min"
       \/ pc = "cu_logbin" /\ ~LogBinOff
    /\ UNCHANGED <<table, cfg, mainVars, rangeVars, maxVal, firstRound, probeRow,
                   overflow, totalAffected, iter, chunks, ends>>
    /\ \/ /\ Issue(<<"read_min">>)
          /\ minVal' = ReadValue(sessMin)
          /\ pc' = "cu_read_max"
          /\ UNCHANGED err
       \/ /\ \E e \in DriverErrors : Fail(<<"read_min">>, e)
          /\ UNCHANGED minVal

\* maxVal, err := getSessionVariableValue("unique_key_max_value_0")
ReadMaxVal ==
    /\ pc = "cu_read_max"
    /\ UNCHANGED <<table, cfg, mainVars, rangeVars, minVal, firstRound, probeRow,
                   overflow, totalAffected, iter, chunks, ends>>
    /\ \/ /\ Issue(<<"read_max">>)
          /\ maxVal' = ReadValue(sessMax)
          /\ pc' = "cu_seed_start"
          /\ UNCHANGED err
       \/ /\ \E e \in DriverErrors : Fail(<<"read_max">>, e)
          /\ UNCHANGED maxVal

\* "SELECT <minVars> INTO <startVars>": every column of min
SeedStart ==
    /\ pc = "cu_seed_start"
    /\ UNCHANGED <<table, cfg, mainVars, sessMin, sessMax, sessEnd, loopVars>>
    /\ \/ /\ Issue(<<"seed_start">>)
          /\ sessStart' = sessMin
          /\ pc' = "probe"
          /\ UNCHANGED err
       \/ /\ \E e \in DriverErrors : Fail(<<"seed_start">>, e)
          /\ UNCHANGED sessStart

\* variant: the limit is chunkSize + 1 in the first round too
ProbeLimitPlusOne == cfg.ChunkSize + 1

\* limit := ChunkSize, one more after the first round
ProbeLimit == IF firstRound THEN cfg.ChunkSize ELSE cfg.ChunkSize + 1

\* variant: the probe is not bounded by max
ProbeWhereNoMax(r) == LexLess(sessStart, r)

\* whereClause of the probe: key > start AND key <= max
ProbeWhere(r) == LexLess(sessStart, r) /\ LexLeq(r, sessMax)

\* the probe: of the first <limit> rows above start, the first one of
\* ORDER BY <key> DESC; NoRow stands for sql.ErrNoRows
ProbeResult ==
    LET inner == LimitAsc({r \in table : ProbeWhere(r)}, ProbeLimit)
    IN  IF inner = {} THEN NoRow ELSE DescFirst(inner)

Probe ==
    /\ pc = "probe"
    /\ UNCHANGED <<table, cfg, mainVars, rangeVars, minVal, maxVal, firstRound,
                   overflow, totalAffected, chunks, ends>>
    /\ iter' = iter + 1
    /\ \/ /\ ProbeLimit >= 0
          /\ Issue(<<"probe">>)
          /\ probeRow' = ProbeResult
          /\ pc' = "install_end"
          /\ UNCHANGED err
       \/ /\ \E e \in DriverErrors : Fail(<<"probe">>, e)
          /\ UNCHANGED probeRow

\* variant: without a probed row the end closes on start
NoRowEndStart == sessStart

\* sql.ErrNoRows: "SELECT <maxVars> INTO <endVars>", every column of max
NoRowEnd == sessMax

\* variant: without a probed row the end falls back to min
EndValueMin == IF probeRow = NoRow THEN sessMin ELSE probeRow

\* the value assigned to the end variables: max when the probe found no
\* row, else the probed row
EndValue == IF probeRow = NoRow THEN NoRowEnd ELSE probeRow

\* variant: the chunk statement follows at once, without overflow check
AfterInstallEndNoCheck == "execute"

\* after the end variables are assigned the range is read back
AfterInstallEnd == "display"

InstallEnd ==
    /\ pc = "install_end"
    /\ UNCHANGED <<table, cfg, mainVars, sessMin, sessMax, sessStart, minVal, maxVal,
                   firstRound, probeRow, overflow, totalAffected, iter,
                   chunks>>
    /\ \/ /\ Issue(<<"set_end">>)
          /\ sessEnd' = EndValue
          /\ ends' = Append(ends, EndValue)
          /\ pc' = AfterInstallEnd
          /\ UNCHANGED err
       \/ /\ \E e \in DriverErrors : Fail(<<"set_end">>, e)
          /\ UNCHANGED <<sessEnd, ends>>

\* variant: the overflow check is made in the first round too
AfterDisplayAlwaysCheck == "overflow"

\* if !firstRound { overflow check }
AfterDisplay == IF firstRound THEN "execute" ELSE "overflow"

\* startVal and endVal are read back for the progress line
ReadDisplay ==
    /\ pc = "display"
    /\ UNCHANGED <<table, cfg, mainVars, rangeVars, loopVars>>
    /\ \/ /\ Issue(<<"read_start", "read_end">>)
          /\ pc' = AfterDisplay
          /\ UNCHANGED err
       \/ \E e \in DriverErrors : Fail(<<"read_start">>, e)
       \/ \E e \in DriverErrors : Fail(<<"read_start", "read_end">>, e)

\* variant: the overflow check compares with > instead of >=
OverflowStrict == sessStart[1] > sessMax[1]

\* "SELECT @unique_key_range_start_0 >= @unique_key_max_value_0"
OverflowValue == sessStart[1] >= sessMax[1]

\* the comparison has a NULL operand and yields NULL: the type assertion
\* row["overflow"].(int64) then panics
OverflowNull == sessStart = Unset \/ sessMax = Unset

OverflowCheck ==
    /\ pc = "overflow"
    /\ UNCHANGED <<table, cfg, mainVars, rangeVars, minVal, maxVal, firstRound,
                   probeRow, totalAffected, iter, chunks, ends>>
    /\ \/ /\ Issue(<<"overflow">>)
          /\ IF OverflowNull
             THEN /\ pc' = "panic"
                  /\ UNCHANGED overflow
             ELSE /\ overflow' = OverflowValue
                  /\ pc' = IF OverflowValue THEN "done" ELSE "execute"
          /\ UNCHANGED err
       \/ /\ \E e \in DriverErrors : Fail(<<"overflow">>, e)
          /\ UNCHANGED overflow

\* ---------------------------------------------------- statement rewriting
\* A statement is a sequence of atoms: pieces of the user's text, the
\* sentinel word, parentheses, dot, names, operators.

\* strings.Replace(s, old, new, -1): every occurrence, left to right
RECURSIVE Replace(_, _, _)
Replace(s, old, new) ==
    IF Len(s) < Len(old) THEN s
    ELSE IF SubSeq(s, 1, Len(old)) = old
    THEN new \o Replace(SubSeq(s, Len(old) + 1, Len(s)), old, new)
    ELSE <<Head(s)>> \o Replace(Tail(s), old, new)

\* fmt.Sprintf("%d", i) for a column index
Digit(i) == <<"0", "1", "2", "3", "4", "5", "6", "7", "8", "9">>[i + 1]

\* strings.Join(vars, ",") of prefix_0 .. prefix_(k-1)
RECURSIVE VariableNames(_, _)
VariableNames(prefix, k) ==
    IF k = 0 THEN <<>>
    ELSE IF k = 1 THEN <<prefix, Digit(0)>>
    ELSE VariableNames(prefix, k - 1) \o <<",", prefix, Digit(k - 1)>>

getUniqueKeyMinValuesVariables ==
    VariableNames("@unique_key_min_value_", cfg.CountColumnsInUniqueKey)

getUniqueKeyRangeStartVariables ==
    VariableNames("@unique_key_range_start_", cfg.CountColumnsInUniqueKey)

getUniqueKeyRangeEndVariables ==
    VariableNames("@unique_key_range_end_", cfg.CountColumnsInUniqueKey)

\* "GO_CHUNK(" + c.Config.Table + ")"
SentinelText == <<"GO_CHUNK", "(">> \o tableName \o <<")">>

\* variant: the first round excludes the lower bound
FirstPredicateStrict ==
    LET cols == cfg.UniqueKeyColumnNames
    IN  cols \o <<" > ", "@unique_key_min_value_", "0", " AND ">>
             \o cols \o <<" < ", "@unique_key_range_end_", "0">>

\* the text put in place of the sentinel in firstQuery
FirstPredicate ==
    LET cols == cfg.UniqueKeyColumnNames
    IN  IF cfg.CountColumnsInUniqueKey = 1
        THEN cols \o <<" >= ", "@unique_key_min_value_", "0", " AND ">>
                  \o cols \o <<" < ", "@unique_key_range_end_", "0">>
        ELSE <<"(">> \o cols \o <<")", " >= ", "(">>
                  \o getUniqueKeyMinValuesVariables \o <<")", " AND ", "(">>
                  \o cols \o <<")", " < ", "(">>
                  \o getUniqueKeyRangeEndVariables \o <<")">>

\* the text put in place of the sentinel in restQuery
RestPredicate ==
    LET cols == cfg.UniqueKeyColumnNames
    IN  IF cfg.CountColumnsInUniqueKey = 1
        THEN cols \o <<" > ", "@unique_key_range_start_", "0", " AND ">>
                  \o cols \o <<" < ", "@unique_key_range_end_", "0">>
        ELSE <<"(">> \o cols \o <<")", " > ", "(">>
                  \o getUniqueKeyRangeStartVariables \o <<")", " AND ", "(">>
                  \o cols \o <<")", " < ", "(">>
                  \o getUniqueKeyRangeEndVariables \o <<")">>

firstQuery == Replace(opts.execute, SentinelText, FirstPredicate)

restQuery == Replace(opts.execute, SentinelText, RestPredicate)

\* q := restQuery; if firstRound { q = firstQuery }
ChunkQuery == IF firstRound THEN firstQuery ELSE restQuery

\* the server has no GO_CHUNK: a statement that still holds the sentinel
\* word is answered with an error
Executable(q) == \A i \in DOMAIN q : q[i] # "GO_CHUNK"

\* variant: the first statement is not bounded below by min
FirstWhereNoMin(r) == LexLess(r, sessEnd)

\* range predicate of firstQuery: key >= min AND key < end
FirstWhere(r) == LexLeq(sessMin, r) /\ LexLess(r, sessEnd)

\* variant: later rounds keep the lower bound of the first round
RestWhereFromMin(r) == LexLeq(sessMin, r) /\ LexLess(r, sessEnd)

\* range predicate of restQuery: key > start AND key < end
RestWhere(r) == LexLess(sessStart, r) /\ LexLess(r, sessEnd)

\* rows selected by the range predicate of the statement of this round
Targeted ==
    {r \in table : IF firstRound THEN FirstWhere(r) ELSE RestWhere(r)}

\* variant: with --terminate-on-not-found a chunk statement that affects
\* no row ends the loop
AfterChunkTerminating ==
    IF reserved.TerminateOnNotFound /\ Targeted = {} THEN "done" ELSE "advance"

\* after the chunk statement (and the sleep) the range start is updated
AfterChunk == "advance"

ExecuteChunk ==
    /\ pc = "execute"
    /\ UNCHANGED <<table, cfg, mainVars, rangeVars, minVal, maxVal, firstRound,
                   probeRow, overflow, iter, ends>>
    /\ \/ /\ Executable(ChunkQuery)
          /\ Issue(<<"chunk">>)
          /\ chunks' = Append(chunks, Targeted)
          /\ totalAffected' = totalAffected + Cardinality(Targeted)
          /\ pc' = AfterChunk
          /\ UNCHANGED err
       \/ /\ \E e \in DriverErrors : Fail(<<"chunk">>, e)
          /\ UNCHANGED <<chunks, totalAffected>>

\* variant: the copy leaves start where it was
NextStartStuck == sessStart

\* "SELECT @unique_key_range_end_0 INTO @unique_key_range_start_0"
\* (with a single-column key either side may be NULL: the copy assigns
\* what end holds, NULL included)
NextStart ==
    IF sessEnd = Unset THEN Unset
    ELSE IF sessStart = Unset THEN <<sessEnd[1]>>
    ELSE [sessStart EXCEPT ![1] = sessEnd[1]]

Advance ==
    /\ pc = "advance"
    /\ UNCHANGED <<table, cfg, mainVars, sessMin, sessMax, sessEnd, minVal, maxVal,
                   probeRow, overflow, totalAffected, iter, chunks, ends>>
    /\ \/ /\ Issue(<<"advance">>)
          /\ sessStart' = NextStart
          /\ firstRound' = FALSE
          /\ pc' = "probe"
          /\ UNCHANGED err
       \/ /\ \E e \in DriverErrors : Fail(<<"advance">>, e)
          /\ UNCHANGED <<sessStart, firstRound>>

Next ==
    \/ RangeMin
    \/ RangeMax
    \/ RangeExists
    \/ RangeRead
    \/ NoLogBinDirective
    \/ ReadMinVal
    \/ ReadMaxVal
    \/ SeedStart
    \/ Probe
    \/ InstallEnd
    \/ ReadDisplay
    \/ OverflowCheck
    \/ ExecuteChunk
    \/ Advance

Spec == Init /\ [][Next]_vars

\* ---------------------------------------------------------------- text
\* Text is a sequence of atoms: a word, a separator, or (for data types) a
\* letter.  Two atoms side by side read as one concatenated text.

\* strings.Contains
Contains(s, sub) ==
    \E i \in 0..(Len(s) - Len(sub)) : SubSeq(s, i + 1, i + Len(sub)) = sub

\* strings.Split(s, sep) for a one-atom separator
RECURSIVE Split(_, _)
Split(s, sep) ==
    IF \A i \in DOMAIN s : s[i] # sep THEN <<s>>
    ELSE LET i == CHOOSE i \in DOMAIN s :
                     s[i] = sep /\ \A j \in 1..(i - 1) : s[j] # sep
         IN  <<SubSeq(s, 1, i - 1)>> \o Split(SubSeq(s, i + 1, Len(s)), sep)

\* the atoms with upper-case letters: the column names ID, A and B
UpperToLower ==
    [x \in {"ID", "A", "B"} |->
        CASE x = "ID" -> "id" [] x = "A" -> "a" [] x = "B" -> "b"]

\* strings.ToLower
ToLower(s) ==
    [i \in DOMAIN s |->
        IF s[i] \in DOMAIN UpperToLower THEN UpperToLower[s[i]] ELSE s[i]]

\* the Go string a text of at most one word stands for; a text of several
\* atoms run together is some other string
Text(s) ==
    IF s = <<>> THEN "" ELSE IF Len(s) = 1 THEN s[1] ELSE "<other>"

\* -------------------------------------------- GetSelectedUniqueKeyColumnNames
\* the forced branch: "c1,c2,...", "c:kind" or "c"
ForcedKey(forced) ==
    LET tokens == Split(forced, ",")
        parts == Split(forced, ":")
    IN  IF Len(tokens) > 1
        THEN [names |-> forced, count |-> Len(tokens), type |-> ""]
        ELSE IF Contains(forced, <<":">>)
        THEN [names |-> parts[1], count |-> 1, type |-> Text(parts[2])]
        ELSE [names |-> forced, count |-> 1, type |-> ""]

\* variant: the character set is not looked at
ClassifyIgnoringCharset(row) ==
    LET dataType == ToLower(row.DATA_TYPE)
    IN  IF Contains(dataType, <<"i", "n", "t">>) THEN "integer"
        ELSE IF \/ Contains(dataType, <<"t", "i", "m", "e">>)
                \/ Contains(dataType, <<"d", "a", "t", "e">>)
        THEN "temporal"
        ELSE ""

\* classification of the head row
Classify(row) ==
    LET dataType == ToLower(row.DATA_TYPE)
        charSet == row.CHARACTER_SET_NAME
    IN  IF ~charSet.null /\ charSet.val # <<>> THEN "text"
        ELSE IF Contains(dataType, <<"i", "n", "t">>) THEN "integer"
        ELSE IF \/ Contains(dataType, <<"t", "i", "m", "e">>)
                \/ Contains(dataType, <<"d", "a", "t", "e">>)
        THEN "temporal"
        ELSE ""

\* the discovered branch: rows[0] alone, or nothing when there is no row
DiscoveredKey(rows) ==
    IF Len(rows) = 0 THEN NoKey
    ELSE [names |-> ToLower(rows[1].COLUMN_NAMES),
          count |-> rows[1].COUNT_COLUMN_IN_INDEX,
          type |-> Classify(rows[1])]

\* variant: the schema is asked even when a column is forced
NeverForced == FALSE

\* c.Config.ForcedChunkingColumn != ""
Forced == opts.forceColumn # <<>>

\* variant: an empty key name is stored and used like any other
UseKeyAnyway(key) ==
    /\ pc' = "lock"
    /\ cfg' = [cfg EXCEPT !.UniqueKeyColumnNames = key.names,
                          !.CountColumnsInUniqueKey = key.count,
                          !.UniqueKeyType = key.type]
    /\ UNCHANGED err

\* the caller's use of the result: no key is fatal, a key is stored into
\* the chunker's configuration
UseKey(key) ==
    IF key.names = <<>>
    THEN /\ pc' = "failed"
         /\ err' = "No unique key found"
         /\ UNCHANGED cfg
    ELSE /\ pc' = "lock"
         /\ cfg' = [cfg EXCEPT !.UniqueKeyColumnNames = key.names,
                               !.CountColumnsInUniqueKey = key.count,
                               !.UniqueKeyType = key.type]
         /\ UNCHANGED err

\* GetSelectedUniqueKeyColumnNames and what runChunkUpdate does with it
Discover ==
    /\ pc = "discover"
    /\ UNCHANGED <<table, rangeVars, loopVars, opts, schema, tableName,
                   connected, unlockDeferred, exitCode, output, reconnects,
                   reserved, firstRun>>
    /\ IF Forced
       THEN /\ selected' = ForcedKey(opts.forceColumn)
            /\ UNCHANGED <<stmts, faults>>
            /\ UseKey(selected')
       ELSE \/ /\ selected' = DiscoveredKey(schema.keyRows)
               /\ Issue(<<"unique_keys">>)
               /\ UseKey(selected')
            \/ /\ \E e \in DriverErrors : Fail(<<"unique_keys">>, e)
               /\ UNCHANGED <<cfg, selected>>

\* --------------------------------------------------------- runChunkUpdate
engineVars == <<table, cfg, rangeVars, loopVars, selected, reconnects,
                reserved, firstRun>>

\* os.Exit(1) after a message on standard output
ExitWith(msg) ==
    /\ output' = msg
    /\ exitCode' = <<1>>
    /\ pc' = "exited"

\* variant: the sentinel is matched in either case
SentinelAnyCase(q, i) == ToLower(<<q[i]>>) = <<"go_chunk">>

\* the literal GO_CHUNK of the pattern
Sentinel(q, i) == q[i] = "GO_CHUNK"

\* the pattern GO_CHUNK\(([^)]+)\) matches q from atom i on
MatchAt(q, i) ==
    /\ i + 3 <= Len(q)
    /\ Sentinel(q, i)
    /\ q[i + 1] = "("
    /\ q[i + 2] # ")"
    /\ \E j \in (i + 3)..Len(q) : q[j] = ")"

Matches(q) == \E i \in DOMAIN q : MatchAt(q, i)

\* matches[1]: the group of the leftmost match, up to the first ")"
TableSpec(q) ==
    LET i == CHOOSE i \in DOMAIN q :
                 MatchAt(q, i) /\ \A h \in 1..(i - 1) : ~MatchAt(q, h)
        j == CHOOSE j \in (i + 3)..Len(q) :
                 q[j] = ")" /\ \A h \in (i + 3)..(j - 1) : q[h] # ")"
    IN  SubSeq(q, i + 2, j - 1)

\* dbName: the --database option unless the table spec is "db.table"
DbName(q) ==
    LET tableTokens == Split(TableSpec(q), ".")
    IN  IF Len(tableTokens) = 2 THEN tableTokens[1] ELSE opts.database

\* the checks made before anything else is done
Validate ==
    /\ pc = "validate"
    /\ UNCHANGED <<engineVars, opts, schema, connected, unlockDeferred,
                   stmts, faults, err>>
    /\ IF opts.execute = <<>>
       THEN /\ ExitWith("Error: --execute is required")
            /\ UNCHANGED tableName
       ELSE IF ~Matches(opts.execute)
       THEN /\ ExitWith("Error: Query must contain GO_CHUNK(table_name)")
            /\ UNCHANGED tableName
       ELSE IF DbName(opts.execute) = <<>>
       THEN /\ ExitWith("Error: No database specified")
            /\ UNCHANGED tableName
       ELSE /\ LET tableTokens == Split(TableSpec(opts.execute), ".")
               IN  tableName' = tableTokens[Len(tableTokens)]
            /\ pc' = "connect"
            /\ UNCHANGED <<exitCode, output>>

\* mysql.NewDB: open and ping
Connect ==
    /\ pc = "connect"
    /\ UNCHANGED <<engineVars, opts, schema, tableName, unlockDeferred,
                   exitCode, output>>
    /\ \/ /\ connected' = TRUE
          /\ pc' = "table_exists"
          /\ UNCHANGED <<stmts, faults, err>>
       \/ /\ \E e \in DriverErrors : Fail(<<>>, e)
          /\ UNCHANGED connected

\* db.TableExists and the two fatal outcomes
TableExists ==
    /\ pc = "table_exists"
    /\ UNCHANGED <<engineVars, mainVars>>
    /\ \/ /\ Issue(<<"table_exists">>)
          /\ IF schema.present
             THEN pc' = "discover" /\ UNCHANGED err
             ELSE pc' = "failed" /\ err' = "Table does not exist"
       \/ \E e \in DriverErrors : Fail(<<"table_exists">>, e)

\* variant: the lock is taken whatever --skip-lock-tables says
LockAlways == TRUE

\* if !skipLock
LockWanted == ~opts.skipLock

\* LOCK TABLES ... READ, and the deferred unlock registered after it
Lock ==
    /\ pc = "lock"
    /\ UNCHANGED <<engineVars, opts, schema, tableName, connected, exitCode,
                   output>>
    /\ IF LockWanted
       THEN \/ /\ Issue(<<"lock">>)
               /\ unlockDeferred' = TRUE
               /\ pc' = "range_min"
               /\ UNCHANGED err
            \/ /\ \E e \in DriverErrors : Fail(<<"lock">>, e)
               /\ UNCHANGED unlockDeferred
       ELSE /\ pc' = "range_min"
            /\ UNCHANGED <<unlockDeferred, stmts, faults, err>>

\* variant: a fatal error leaves with code 0
FatalCodeZero == <<0>>

\* log.Fatal: os.Exit(1)
FatalCode == <<1>>

\* log.Fatal at any of the error checks: the message goes to standard
\* error and the process exits at once; deferred calls are not run
Fatal ==
    /\ pc = "failed"
    /\ exitCode' = FatalCode
    /\ pc' = "exited"
    /\ UNCHANGED <<engineVars, opts, schema, tableName, connected,
                   unlockDeferred, output, stmts, faults, err>>

\* variant: the empty-table return prints nothing
NoRangeSilent == output

\* fmt.Println("No range to process") when rangeExists is false
ReturnOutput == IF pc = "norange" THEN "No range to process" ELSE output

\* return from runChunkUpdate: the deferred unlock runs (its error is
\* dropped), then the deferred db.Close, and main ends with code 0
Return ==
    /\ pc \in {"done", "norange"}
    /\ output' = ReturnOutput
    /\ IF unlockDeferred
       THEN \/ Issue(<<"unlock">>)
            \/ \E e \in DriverErrors :
                  /\ stmts' = Append(stmts, "unlock")
                  /\ faults' = Append(faults, [at |-> Len(stmts) + 1, e |-> e])
       ELSE UNCHANGED <<stmts, faults>>
    /\ connected' = FALSE
    /\ exitCode' = <<0>>
    /\ pc' = "exited"
    /\ UNCHANGED <<engineVars, opts, schema, tableName, unlockDeferred, err>>

\* ------------------------------------------------------- the whole run
\* rows of the unique-key query
NoCharSet == [null |-> TRUE, val |-> <<>>]

IntRow == [COLUMN_NAMES |-> <<"ID">>, COUNT_COLUMN_IN_INDEX |-> 1,
           DATA_TYPE |-> <<"i", "n", "t">>, CHARACTER_SET_NAME |-> NoCharSet]

PairRow == [COLUMN_NAMES |-> <<"A", ",", "b">>, COUNT_COLUMN_IN_INDEX |-> 2,
            DATA_TYPE |-> <<"i", "n", "t">>, CHARACTER_SET_NAME |-> NoCharSet]

TextRow == [COLUMN_NAMES |-> <<"ID">>, COUNT_COLUMN_IN_INDEX |-> 1,
            DATA_TYPE |-> <<"v", "a", "r", "c", "h", "a", "r">>,
            CHARACTER_SET_NAME |-> [null |-> FALSE, val |-> <<"utf8">>]]

MainKeyRows == {<<>>, <<IntRow>>, <<PairRow, IntRow>>, <<TextRow>>}

\* values of --execute: absent, without sentinel, sentinel in lower case,
\* sentinel without a table name, and three well-formed ones
Templates ==
    {<<>>,
     <<"x">>,
     <<"go_chunk", "(", "t", ")">>,
     <<"x", "GO_CHUNK", "(", ")">>,
     <<"DELETE FROM t WHERE ", "GO_CHUNK", "(", "t", ")", " AND flag=0">>,
     <<"x", "GO_CHUNK", "(", "db", ".", "t", ")", "x">>,
     <<"GO_CHUNK", "(", ")", "GO_CHUNK", "(", "t", ")">>}

MainOpts ==
    [execute : Templates,
     database : {<<>>, <<"db">>},
     forceColumn : {<<>>, <<"id", ":", "integer">>, <<"a", ",", "b">>},
     skipLock : BOOLEAN]

MainSeeds == {[kind |-> "none", val |-> 0], [kind |-> "int", val |-> 2]}

\* chunk.Config as runChunkUpdate builds it from the options
MainConfigs ==
    [UniqueKeyColumnNames : {<<>>},
     CountColumnsInUniqueKey : {0},
     UniqueKeyType : {""},
     ChunkSize : (-1)..MaxChunk,
     StartWith : MainSeeds,
     EndWith : MainSeeds,
     NoLogBin : BOOLEAN]

\* the run all others are compared with: nothing varies behind an option
\* set that does not get past the checks it is about
PlainOpts == [execute |-> <<"DELETE FROM t WHERE ", "GO_CHUNK", "(", "t", ")",
                            " AND flag=0">>,
              database |-> <<"db">>, forceColumn |-> <<>>, skipLock |-> FALSE]

PlainConfig == [UniqueKeyColumnNames |-> <<>>, CountColumnsInUniqueKey |-> 0,
                UniqueKeyType |-> "", ChunkSize |-> 1,
                StartWith |-> [kind |-> "none", val |-> 0],
                EndWith |-> [kind |-> "none", val |-> 0],
                NoLogBin |-> FALSE]

\* the number of key columns the run will chunk by
Arity(o, sch) ==
    LET key == IF o.forceColumn # <<>> THEN ForcedKey(o.forceColumn)
               ELSE DiscoveredKey(sch.keyRows)
    IN  IF key.count = 2 THEN 2 ELSE 1

\* tables without gaps: the rows up to some key
DenseTables(k) ==
    {{}} \cup {{r \in KeySpace(k) : LexLeq(r, top)} : top \in KeySpace(k)}

InitMain ==
    /\ opts \in MainOpts
    /\ schema \in [present : BOOLEAN, keyRows : MainKeyRows]
    /\ cfg \in MainConfigs
    /\ table \in DenseTables(Arity(opts, schema))
    /\ (opts.execute # PlainOpts.execute \/ opts.database # PlainOpts.database
          \/ ~schema.present)
          => /\ cfg = PlainConfig
             /\ table = {<<1>>}
             /\ opts.forceColumn = <<>>
             /\ schema.keyRows = <<IntRow>>
    /\ opts.forceColumn # <<>> => schema.keyRows = <<TextRow>>
    /\ pc = "validate"
    /\ sessMin = Unset
    /\ sessMax = Unset
    /\ sessStart = Unset
    /\ sessEnd = Unset
    /\ minVal = 0
    /\ maxVal = 0
    /\ firstRound = TRUE
    /\ probeRow = NoRow
    /\ overflow = FALSE
    /\ totalAffected = 0
    /\ iter = 0
    /\ chunks = <<>>
    /\ ends = <<>>
    /\ stmts = <<>>
    /\ faults = <<>>
    /\ err = "nil"
    /\ tableName = <<>>
    /\ connected = FALSE
    /\ unlockDeferred = FALSE
    /\ exitCode = NotExited
    /\ output = ""
    /\ selected = NoKey
    /\ reconnects = <<>>
    /\ reserved = DefaultReserved
    /\ firstRun = NotRun

NextMain ==
    \/ Validate
    \/ Connect
    \/ TableExists
    \/ Discover
    \/ Lock
    \/ Next
    \/ Fatal
    \/ Return

SpecMain == InitMain /\ [][NextMain]_vars

\* ----------------------------------------------------------- vocabulary
Done == pc = "done"
SingleKey == cfg.CountColumnsInUniqueKey = 1
NoSeeds == cfg.StartWith.kind = "none" /\ cfg.EndWith.kind = "none"

\* rows of the global work set min <= key <= max
InRange(r) == LexLeq(sessMin, r) /\ LexLeq(r, sessMax)
WorkSet == {r \in table : InRange(r)}

\* rows targeted by some executed chunk statement
AllTargeted == UNION {chunks[i] : i \in DOMAIN chunks}

CeilDiv(n, d) == (n + d - 1) \div d

\* the j-th smallest key of S
Nth(S, j) == CHOOSE r \in S : Cardinality({q \in S : LexLeq(q, r)}) = j

\* the statement the driver failed on
FailedOp == stmts[faults[1].at]

\* ----------------------------------------------------------------- claims
\* C1 (as stated): when ChunkUpdate completes for a single-column key and
\* chunkSize > 0, the rows targeted by the chunk statements are exactly the
\* rows with min <= key <= max.
C1_Coverage ==
    (Done /\ SingleKey /\ cfg.ChunkSize > 0) => AllTargeted = WorkSet

\* C2: no row is targeted by the chunk statements of two distinct
\* iterations, for single-column and composite keys alike.
C2_Disjoint ==
    \A i, j \in DOMAIN chunks : i # j => chunks[i] \cap chunks[j] = {}

C2_Witness ==
    /\ Done
    /\ Len(chunks) >= 2
    /\ \A i \in DOMAIN chunks : chunks[i] # {}

\* C3: with chunkSize > 0 the loop never gets stuck and never runs on: a
\* run that has not ended can take a step, the number of iterations stays
\* within the number of rows plus two, and a run that completes has left
\* the loop through an overflow check that answered true.
C3_Terminates ==
    cfg.ChunkSize > 0 =>
        /\ Halted \/ ENABLED Next
        /\ iter <= Cardinality(table) + 2
        /\ Done => overflow /\ stmts[Len(stmts)] = "overflow"

C3_Witness ==
    /\ Done
    /\ cfg.ChunkSize > 0
    /\ iter = Cardinality(table) + 2

\* C4 (as stated): for a single-column key and chunkSize > 0, with or
\* without seeds, the loop runs at most ceil(n / chunkSize) + 1 iterations,
\* n being the number of rows with min <= key <= max.
C4_Original ==
    (SingleKey /\ cfg.ChunkSize > 0 /\ iter > 0) =>
        iter <= CeilDiv(Cardinality(WorkSet), cfg.ChunkSize) + 1

\* C4 (amended): the bound ceil(n / chunkSize) + 1 holds when neither
\* --start-with nor --end-with is given; with a seed the loop runs at most
\* ceil(n / chunkSize) + 2 iterations.
C4_Amended ==
    (SingleKey /\ cfg.ChunkSize > 0 /\ iter > 0) =>
        iter <= CeilDiv(Cardinality(WorkSet), cfg.ChunkSize)
                + (IF NoSeeds THEN 1 ELSE 2)

C4_Witness ==
    /\ Done
    /\ SingleKey
    /\ cfg.ChunkSize > 0
    /\ cfg.EndWith.kind # "none"
    /\ Cardinality(WorkSet) > 0
    /\ iter = CeilDiv(Cardinality(WorkSet), cfg.ChunkSize) + 2

\* C5: with chunkSize > 0 every executed chunk statement targets at most
\* chunkSize rows, in the first round, in later rounds and in a round
\* whose probe found no row.
C5_BoundedFanOut ==
    cfg.ChunkSize > 0 =>
        \A i \in DOMAIN chunks : Cardinality(chunks[i]) <= cfg.ChunkSize

C5_Witness ==
    /\ pc = "advance"
    /\ cfg.ChunkSize > 0
    /\ Len(chunks) >= 2
    /\ probeRow # NoRow
    /\ \A i \in DOMAIN chunks : Cardinality(chunks[i]) = cfg.ChunkSize

\* C6: every targeted row has min <= key <= max; rows below min or above
\* max are targeted by no chunk statement of the run.
C6_Confined ==
    \A i \in DOMAIN chunks : \A r \in chunks[i] : InRange(r)

C6_Witness ==
    /\ Done
    /\ cfg.StartWith.kind # "none"
    /\ cfg.EndWith.kind # "none"
    /\ AllTargeted # {}
    /\ \E r \in table : LexLess(r, sessMin)
    /\ \E r \in table : LexLess(sessMax, r)

\* C7 (as stated): over the rows (1,1), (1,2), (2,1) of a composite key and
\* chunkSize = 1 a completed run has executed three chunk statements that
\* target (1,1), then (1,2), then (2,1).
C7_CompositeScenario ==
    (/\ Done
     /\ cfg.CountColumnsInUniqueKey = 2
     /\ cfg.ChunkSize = 1
     /\ table = {<<1, 1>>, <<1, 2>>, <<2, 1>>})
        => chunks = <<{<<1, 1>>}, {<<1, 2>>}, {<<2, 1>>}>>

\* C8 (as stated): for a single-column key without seeds, N rows and a
\* chunkSize c > 0 dividing N, a completed run has executed N/c chunk
\* statements of c rows each, the i-th endpoint is the (i*c)-th smallest
\* key, and the affected-row total is N.
C8_ChunkShape ==
    LET N == Cardinality(table)
        c == cfg.ChunkSize
    IN  (Done /\ SingleKey /\ NoSeeds /\ c > 0 /\ N % c = 0) =>
            /\ Len(chunks) = N \div c
            /\ \A i \in DOMAIN chunks :
                  /\ Cardinality(chunks[i]) = c
                  /\ ends[i] = Nth(table, i * c)
            /\ totalAffected = N

C10_ErrorRecovery ==
    (faults # <<>> /\ FailedOp = "chunk") => pc # "failed"


\* ------------------------------------------------- the connection pool
\* mysql.DB wraps *sql.DB, a pool of connections; Exec and QueryRow take
\* whichever connection the pool hands out.  The program uses the pool from
\* one goroutine and closes every result before the next statement, so the
\* pool hands out the connection used before, until that connection is
\* found closed (by the server or the network): the statement is then sent
\* on a new connection, a new server session, without any error reported.
\* reconnects holds, for every replacement, the number of statements sent
\* before it.

\* the session the i-th statement of the run was sent on
SessionOf(i) ==
    1 + Cardinality({j \in DOMAIN reconnects : reconnects[j] < i})

\* the connection in use is found closed and replaced: the new session
\* has none of the session variables assigned
ConnectionLost ==
    /\ connected
    /\ pc \notin {"validate", "connect", "failed", "panic", "exited"}
    /\ stmts # <<>>
    /\ Len(reconnects) < MaxReconnects
    /\ reconnects' = Append(reconnects, Len(stmts))
    /\ sessMin' = Unset
    /\ sessMax' = Unset
    /\ sessStart' = Unset
    /\ sessEnd' = Unset
    /\ UNCHANGED <<table, cfg, loopVars, selected, opts, schema, tableName,
                   connected, unlockDeferred, exitCode, output, pc, stmts,
                   faults, err, reserved, firstRun>>

\* a run-time panic unwinds runChunkUpdate: the deferred unlock and the
\* deferred db.Close run, then the process ends with code 2
Panic ==
    /\ pc = "panic"
    /\ IF unlockDeferred
       THEN \/ Issue(<<"unlock">>)
            \/ \E e \in DriverErrors :
                  /\ stmts' = Append(stmts, "unlock")
                  /\ faults' = Append(faults, [at |-> Len(stmts) + 1, e |-> e])
       ELSE UNCHANGED <<stmts, faults>>
    /\ connected' = FALSE
    /\ exitCode' = <<2>>
    /\ pc' = "exited"
    /\ UNCHANGED <<engineVars, opts, schema, tableName, unlockDeferred,
                   output, err>>

\* runs on a single-column integer key, with and without the lock
InitPool ==
    /\ opts \in [execute : {PlainOpts.execute}, database : {<<"db">>},
                 forceColumn : {<<>>}, skipLock : BOOLEAN]
    /\ schema = [present |-> TRUE, keyRows |-> <<IntRow>>]
    /\ cfg \in {c \in MainConfigs :
                  /\ c.ChunkSize = 1
                  /\ c.StartWith.kind = "none"
                  /\ c.EndWith.kind = "none"}
    /\ table \in DenseTables(1)
    /\ pc = "validate"
    /\ sessMin = Unset
    /\ sessMax = Unset
    /\ sessStart = Unset
    /\ sessEnd = Unset
    /\ minVal = 0
    /\ maxVal = 0
    /\ firstRound = TRUE
    /\ probeRow = NoRow
    /\ overflow = FALSE
    /\ totalAffected = 0
    /\ iter = 0
    /\ chunks = <<>>
    /\ ends = <<>>
    /\ stmts = <<>>
    /\ faults = <<>>
    /\ err = "nil"
    /\ tableName = <<>>
    /\ connected = FALSE
    /\ unlockDeferred = FALSE
    /\ exitCode = NotExited
    /\ output = ""
    /\ selected = NoKey
    /\ reconnects = <<>>
    /\ reserved = DefaultReserved
    /\ firstRun = NotRun

NextPool ==
    \/ NextMain
    \/ ConnectionLost
    \/ Panic

SpecPool == InitPool /\ [][NextPool]_vars

\* ------------------------------------------------- key selection alone
\* atoms of a forced specification: column names, the two separators, and
\* a key type
ForcedAtoms == {"a", "b", ",", ":", "integer"}

ForcedSpecs == UNION {[1..n -> ForcedAtoms] : n \in 0..MaxForced}

DataTypes ==
    {<<"i", "n", "t">>,
     <<"b", "i", "g", "i", "n", "t">>,
     <<"v", "a", "r", "c", "h", "a", "r">>,
     <<"d", "a", "t", "e", "t", "i", "m", "e">>,
     <<"t", "i", "m", "e", "s", "t", "a", "m", "p">>,
     <<"d", "a", "t", "e">>,
     <<"p", "o", "i", "n", "t">>,
     <<"d", "e", "c", "i", "m", "a", "l">>}

\* CHARACTER_SET_NAME: NULL, the empty string, or a name
CharSets == {NoCharSet, [null |-> FALSE, val |-> <<>>],
             [null |-> FALSE, val |-> <<"utf8">>]}

KeyRows ==
    [COLUMN_NAMES : {<<"ID">>, <<"A", ",", "b">>},
     COUNT_COLUMN_IN_INDEX : 1..MaxCol,
     DATA_TYPE : DataTypes,
     CHARACTER_SET_NAME : CharSets]

\* results of the unique-key query: no row, one row, or two rows
KeyRowLists ==
    {<<>>} \cup {<<r>> : r \in KeyRows}
           \cup {<<r, q>> : r \in KeyRows, q \in {IntRow, TextRow}}

\* GetSelectedUniqueKeyColumnNames is about to be called
InitKey ==
    /\ opts \in [execute : {PlainOpts.execute}, database : {<<"db">>},
                 forceColumn : ForcedSpecs, skipLock : {FALSE}]
    /\ schema \in [present : {TRUE}, keyRows : KeyRowLists]
    /\ opts.forceColumn # <<>> => schema.keyRows \in MainKeyRows
    /\ cfg = PlainConfig
    /\ table = {}
    /\ pc = "discover"
    /\ sessMin = Unset
    /\ sessMax = Unset
    /\ sessStart = Unset
    /\ sessEnd = Unset
    /\ minVal = 0
    /\ maxVal = 0
    /\ firstRound = TRUE
    /\ probeRow = NoRow
    /\ overflow = FALSE
    /\ totalAffected = 0
    /\ iter = 0
    /\ chunks = <<>>
    /\ ends = <<>>
    /\ stmts = <<"table_exists">>
    /\ faults = <<>>
    /\ err = "nil"
    /\ tableName = <<"t">>
    /\ connected = TRUE
    /\ unlockDeferred = FALSE
    /\ exitCode = NotExited
    /\ output = ""
    /\ selected = NoKey
    /\ reconnects = <<>>
    /\ reserved = DefaultReserved
    /\ firstRun = NotRun

NextKey == Discover

SpecKey == InitKey /\ [][NextKey]_vars

\* ------------------------------------------------------ the run's history
Exited == pc = "exited"

At(op) == {i \in DOMAIN stmts : stmts[i] = op}

Issued(op) == At(op) # {}

\* the statements of GetUniqueKeyRange and of ChunkUpdate
RangeOps == {"set_min", "set_max", "range_exists", "read_range"}

ChunkOps == {"sql_log_bin_0", "read_min", "read_max", "seed_start", "probe",
             "set_end", "read_display", "overflow", "chunk", "advance"}

\* the lock statement was answered without error
LockHeld == unlockDeferred

\* C11: unless --skip-lock-tables is set the lock statement precedes every
\* statement of range initialization, no unlock precedes a chunk
\* statement, and a process that exits after the lock was acquired (on
\* clean completion, on an empty table, on a range-initialization error, on
\* a chunk error) has issued the unlock as its last statement.
C11_LockLifetime ==
    /\ ~opts.skipLock =>
          \A i \in DOMAIN stmts : stmts[i] \in RangeOps =>
             \E j \in 1..(i - 1) : stmts[j] = "lock"
    /\ \A i \in At("unlock") : \A j \in At("chunk") : j < i
    /\ Exited /\ LockHeld =>
          /\ Issued("unlock")
          /\ stmts[Len(stmts)] = "unlock"

\* C12: with --skip-lock-tables the run never issues a lock or an unlock
\* statement and registers no deferred unlock; the lock step itself does
\* nothing but hand over to range initialization, leaving the session, the
\* configuration and the statement history as they were.
C12_SkipLock ==
    /\ [](opts.skipLock =>
            ~Issued("lock") /\ ~Issued("unlock") /\ ~unlockDeferred)
    /\ [][opts.skipLock /\ pc = "lock" =>
            pc' = "range_min" /\ UNCHANGED <<engineVars, stmts, faults, err>>]_vars

\* a run with --skip-lock-tables that went through range initialization
\* and the chunk loop and ended cleanly
C12_Witness ==
    /\ opts.skipLock
    /\ Exited
    /\ exitCode = <<0>>
    /\ Issued("set_min")
    /\ Issued("chunk")

\* C13: on an empty table no statement of ChunkUpdate is ever issued (no
\* chunk statement, no SQL_LOG_BIN directive, no assignment to the start
\* or end variables), and a run whose emptiness probe was answered ends
\* with "No range to process" on standard output, no error and exit
\* code 0.
C13_EmptyTable ==
    table = {} =>
       /\ \A i \in DOMAIN stmts : stmts[i] \notin ChunkOps
       /\ sessStart = Unset /\ sessEnd = Unset
       /\ pc = "norange" => err = "nil"
       /\ Exited /\ err = "nil" /\ Issued("range_exists") =>
             /\ output = "No range to process"
             /\ exitCode = <<0>>

\* an empty table, locked, with --no-log-bin, after a clean exit
C13_Witness ==
    /\ table = {}
    /\ cfg.NoLogBin
    /\ LockHeld
    /\ Exited
    /\ Issued("range_exists")
    /\ err = "nil"

ValidationMessages ==
    {"Error: --execute is required",
     "Error: Query must contain GO_CHUNK(table_name)",
     "Error: No database specified"}

\* an error reached the user: a validation message, or an error returned
\* to runChunkUpdate
SurfacedError == err # "nil" \/ output \in ValidationMessages

\* the driver answered a statement other than the deferred unlock, or the
\* connection attempt, with an error
DriverFault ==
    \E i \in DOMAIN faults :
        faults[i].at = 0 \/ stmts[faults[i].at] # "unlock"

\* C14: a process that has exited has code 0 exactly when no error was
\* surfaced, and then it ended on the overflow check or on the emptiness
\* probe of an empty table; a driver error at the connection or at any
\* statement whose result is looked at gives a non-zero code.
C14_ExitCode ==
    Exited =>
       /\ exitCode \in {<<0>>, <<1>>}
       /\ exitCode = <<0>> <=> ~SurfacedError
       /\ DriverFault => exitCode # <<0>>
       /\ exitCode = <<0>> =>
             \/ overflow /\ Issued("overflow")
             \/ table = {} /\ Issued("range_exists")

\* an exit after a driver error in the chunk loop
C14_Witness ==
    /\ Exited
    /\ exitCode = <<1>>
    /\ DriverFault
    /\ Issued("chunk")

\* the statement holds GO_CHUNK, an opening parenthesis, at least one atom
\* that is not a closing parenthesis, and a closing parenthesis
HasToken(q) ==
    \E i \in DOMAIN q : \E j \in (i + 3)..Len(q) :
        /\ q[i] = "GO_CHUNK"
        /\ q[i + 1] = "("
        /\ q[j] = ")"
        /\ \A h \in (i + 2)..(j - 1) : q[h] # ")"

\* C15: when --execute is missing or holds no GO_CHUNK(<table>) token
\* (upper case, non-empty table name) the run never opens a connection
\* and never issues a statement, and it exits with code 1 and the message
\* of the failed check.
C15_ValidationFirst ==
    opts.execute = <<>> \/ ~HasToken(opts.execute) =>
       /\ ~connected
       /\ stmts = <<>>
       /\ pc \in {"validate", "exited"}
       /\ Exited =>
             /\ exitCode = <<1>>
             /\ output = IF opts.execute = <<>>
                         THEN "Error: --execute is required"
                         ELSE "Error: Query must contain GO_CHUNK(table_name)"

\* the sentinel in lower case was refused
C15_Witness ==
    /\ opts.execute = <<"go_chunk", "(", "t", ")">>
    /\ Exited
    /\ output = "Error: Query must contain GO_CHUNK(table_name)"

\* the key the run will chunk by, as the options and the schema fix it
KeyOfRun ==
    IF Forced THEN ForcedKey(opts.forceColumn)
    ELSE DiscoveredKey(schema.keyRows)

SeedGiven == cfg.StartWith.kind # "none" \/ cfg.EndWith.kind # "none"

\* C16: a run with a negative chunk size, or with --start-with or
\* --end-with on a key that is not a single integer column, opens no
\* connection, takes no lock, issues no statement, and exits non-zero.
C16_RejectedFirst ==
    \/ cfg.ChunkSize < 0
    \/ SeedGiven /\ ~(KeyOfRun.type = "integer" /\ KeyOfRun.count = 1)
    => /\ ~connected
       /\ ~LockHeld
       /\ stmts = <<>>
       /\ Exited => exitCode # <<0>>

StartErr == "--start-with only applies to single column integer chunking keys"

EndErr == "--end-with only applies to single column integer chunking keys"

StartGiven == cfg.StartWith.kind # "none"

EndGiven == cfg.EndWith.kind # "none"

IntegerSingle ==
    cfg.UniqueKeyType = "integer" /\ cfg.CountColumnsInUniqueKey = 1

\* GetUniqueKeyRange has just returned: with an error, with rangeExists
\* false, or with rangeExists true
RangeFailed == pc = "failed" /\ \A i \in DOMAIN stmts : stmts[i] \notin ChunkOps

RangeReturned == RangeFailed \/ pc \in {"norange", "cu_logbin"}

\* C17 as stated: a seed on an unsupported key gives that seed's error,
\* whichever seed it is; no seed, or a single integer key, gives neither.
C17_Original ==
    RangeReturned =>
       /\ StartGiven /\ ~IntegerSingle => err = StartErr
       /\ EndGiven /\ ~IntegerSingle => err = EndErr
       /\ NoSeeds \/ IntegerSingle => err \notin {StartErr, EndErr}

\* C17 amended: --start-with on an unsupported key gives the --start-with
\* error before any statement; --end-with on an unsupported key gives the
\* --end-with error when --start-with is absent and the minimum query
\* succeeded, and in the other cases the call still fails, with the
\* --start-with error or with the driver error of the minimum query; no
\* seed, or a single integer key, gives neither error.
C17_Amended ==
    /\ SeedGiven /\ ~IntegerSingle =>
          pc \in {"range_min", "range_max", "failed"}
    /\ RangeReturned =>
          /\ StartGiven /\ ~IntegerSingle =>
                err = StartErr /\ stmts = <<>>
          /\ EndGiven /\ ~IntegerSingle /\ ~StartGiven =>
                \/ err = EndErr /\ stmts = <<"set_min">> /\ faults = <<>>
                \/ err \in DriverErrors /\ stmts = <<"set_min">>
          /\ NoSeeds \/ IntegerSingle => err \notin {StartErr, EndErr}

\* --end-with alone on an unsupported key, refused after the minimum query
C17_Witness ==
    /\ RangeFailed
    /\ EndGiven
    /\ ~StartGiven
    /\ ~IntegerSingle
    /\ err = EndErr

\* C18: a completed run with chunk size 0 has executed exactly one chunk
\* statement, and that statement selected every row with
\* min <= key <= max.
C18_OneChunk ==
    Done /\ cfg.ChunkSize = 0 =>
       /\ Len(chunks) = 1
       /\ chunks[1] = WorkSet

\* GetSelectedUniqueKeyColumnNames has returned
Selected == pc \in {"lock", "failed"}

\* the positions of a separator in a text
Seps(t, sep) == {i \in DOMAIN t : t[i] = sep}

\* C19: with a forced specification the call issues no statement and
\* returns no error; a specification with a comma returns the whole
\* specification, one more than its number of commas, and no type; one
\* without comma and with a single colon returns what is before the colon,
\* 1, and what is after it; one without comma or colon returns itself, 1,
\* and no type; the rows of the schema play no part.
C19_ForcedKey ==
    LET f == opts.forceColumn
        colon == CHOOSE i \in Seps(f, ":") : TRUE
    IN  f # <<>> /\ Selected =>
           /\ stmts = <<"table_exists">>
           /\ faults = <<>>
           /\ err \notin DriverErrors
           /\ Seps(f, ",") # {} =>
                 selected = [names |-> f,
                             count |-> Cardinality(Seps(f, ",")) + 1,
                             type |-> ""]
           /\ Seps(f, ",") = {} /\ Cardinality(Seps(f, ":")) = 1 =>
                 /\ selected.names = SubSeq(f, 1, colon - 1)
                 /\ selected.count = 1
                 /\ Len(f) = colon + 1 => selected.type = f[colon + 1]
                 /\ Len(f) = colon => selected.type = ""
           /\ Seps(f, ",") = {} /\ Seps(f, ":") = {} =>
                 selected = [names |-> f, count |-> 1, type |-> ""]

\* "a:integer" was forced on a schema whose only unique key is a varchar
C19_Witness ==
    /\ opts.forceColumn = <<"a", ":", "integer">>
    /\ schema.keyRows = <<TextRow>>
    /\ pc = "lock"
    /\ cfg.UniqueKeyType = "integer"
    /\ cfg.CountColumnsInUniqueKey = 1

\* C20: without a forced column, once the unique-key query is answered,
\* the result is made of the first row alone: its column list in lower
\* case, its column count, and the type "text" when the character set is
\* present and not empty, else "integer" when the data type contains
\* "int", else "temporal" when it contains "time" or "date", else empty;
\* with no row the result is the empty name, and the call itself reports
\* no error.
C20_FirstRow ==
    LET rows == schema.keyRows
        head == rows[1]
        charSet == head.CHARACTER_SET_NAME
    IN  opts.forceColumn = <<>> /\ Selected /\ faults = <<>> =>
           /\ stmts = <<"table_exists", "unique_keys">>
           /\ err \notin DriverErrors
           /\ rows = <<>> => selected.names = <<>>
           /\ rows # <<>> =>
                 /\ selected.names = IF head.COLUMN_NAMES = <<"ID">>
                                     THEN <<"id">>
                                     ELSE <<"a", ",", "b">>
                 /\ selected.count = head.COUNT_COLUMN_IN_INDEX
                 /\ selected.type =
                       IF ~charSet.null /\ charSet.val # <<>> THEN "text"
                       ELSE IF Contains(head.DATA_TYPE, <<"i", "n", "t">>)
                       THEN "integer"
                       ELSE IF \/ Contains(head.DATA_TYPE, <<"t", "i", "m", "e">>)
                               \/ Contains(head.DATA_TYPE, <<"d", "a", "t", "e">>)
                       THEN "temporal"
                       ELSE ""

\* two rows were returned; the first is a two-column key on a column with
\* a character set, the second an int primary key
C20_Witness ==
    /\ opts.forceColumn = <<>>
    /\ Len(schema.keyRows) = 2
    /\ schema.keyRows[1].COLUMN_NAMES = <<"A", ",", "b">>
    /\ schema.keyRows[2] = IntRow
    /\ pc = "lock"
    /\ selected = [names |-> <<"a", ",", "b">>, count |-> 2, type |-> "text"]

\* the unique-key query finds no unique index and no column is forced
NoUniqueIndex == opts.forceColumn = <<>> /\ schema.keyRows = <<>>

\* C21: when the table does not exist, or no column is forced and the
\* table has no unique index, the run never requests the lock, never
\* issues a statement of range initialization or of the chunk loop, and
\* exits with a non-zero code.
C21_DiscoveryFatal ==
    ~schema.present \/ NoUniqueIndex =>
       /\ ~Issued("lock")
       /\ ~LockHeld
       /\ \A i \in DOMAIN stmts : stmts[i] \notin RangeOps \cup ChunkOps
       /\ pc \in {"validate", "connect", "table_exists", "discover",
                  "failed", "exited"}
       /\ Exited => exitCode = <<1>>

\* the unique-key query was answered with no row and the run was stopped
C21_Witness ==
    /\ NoUniqueIndex
    /\ Issued("unique_keys")
    /\ err = "No unique key found"
    /\ Exited

\* ChunkUpdate has built firstQuery and restQuery
QueriesBuilt ==
    pc \in {"cu_seed_start", "probe", "install_end", "display", "overflow",
            "execute", "advance", "done"}

ScenarioTemplate ==
    <<"DELETE FROM t WHERE ", "GO_CHUNK", "(", "t", ")", " AND flag=0">>

SingleIntegerId ==
    /\ cfg.UniqueKeyColumnNames = <<"id">>
    /\ cfg.CountColumnsInUniqueKey = 1
    /\ cfg.UniqueKeyType = "integer"

\* C23 as stated: for the scenario template and the single integer key id
\* the first-round statement is the template with
\* "id >= @u_min_0 AND id < @u_end_0" in place of the sentinel and the
\* later statement the template with "id > @u_start_0 AND id < @u_end_0".
C23_Original ==
    QueriesBuilt /\ opts.execute = ScenarioTemplate /\ SingleIntegerId =>
       /\ firstQuery = <<"DELETE FROM t WHERE ", "id", " >= ", "@u_min_", "0",
                         " AND ", "id", " < ", "@u_end_", "0", " AND flag=0">>
       /\ restQuery = <<"DELETE FROM t WHERE ", "id", " > ", "@u_start_", "0",
                        " AND ", "id", " < ", "@u_end_", "0", " AND flag=0">>

\* C23 amended: the same with the session variables under the names the
\* engine gives them: @unique_key_min_value_0, @unique_key_range_start_0
\* and @unique_key_range_end_0; the statement sent in a round is the first
\* of the two in the first round and the second afterwards.
C23_Amended ==
    QueriesBuilt /\ opts.execute = ScenarioTemplate /\ SingleIntegerId =>
       /\ firstQuery =
             <<"DELETE FROM t WHERE ", "id", " >= ", "@unique_key_min_value_",
               "0", " AND ", "id", " < ", "@unique_key_range_end_", "0",
               " AND flag=0">>
       /\ restQuery =
             <<"DELETE FROM t WHERE ", "id", " > ", "@unique_key_range_start_",
               "0", " AND ", "id", " < ", "@unique_key_range_end_", "0",
               " AND flag=0">>
       /\ ChunkQuery = IF firstRound THEN firstQuery ELSE restQuery

\* both statements of the scenario have been executed
C23_Witness ==
    /\ opts.execute = ScenarioTemplate
    /\ SingleIntegerId
    /\ Len(chunks) >= 2
    /\ pc = "advance"

\* the loop of ChunkUpdate is running
InLoop == pc \in {"probe", "install_end", "display", "overflow", "execute",
                  "advance"}

\* C24: all statements of a run are sent on one session, and while the
\* chunk loop runs the variables assigned before it (min, max, start) hold
\* what was assigned to them: none of them reads as NULL.
C24_SingleSession ==
    /\ \A i, j \in DOMAIN stmts : SessionOf(i) = SessionOf(j)
    /\ InLoop => sessMin # Unset /\ sessMax # Unset /\ sessStart # Unset

\* the statements of runChunkUpdate itself
MainOps == {"table_exists", "unique_keys", "lock", "unlock"}

\* positions of the statements ChunkUpdate has issued
ChunkAt == {i \in DOMAIN stmts : stmts[i] \in ChunkOps}

\* C26: with NoLogBin the first statement of ChunkUpdate is the directive
\* that turns logging off, it occurs once, every chunk statement comes
\* after it, and no statement of the run is anything but a statement of
\* the kinds listed (none turns logging on again); without NoLogBin
\* the directive never occurs.
C26_NoLogBin ==
    /\ cfg.NoLogBin =>
          /\ \A i \in ChunkAt :
                (\A j \in ChunkAt : i <= j) => stmts[i] = "sql_log_bin_0"
          /\ Cardinality(At("sql_log_bin_0")) <= 1
          /\ \A i \in At("chunk") : \E j \in 1..(i - 1) :
                stmts[j] = "sql_log_bin_0"
    /\ ~cfg.NoLogBin => ~Issued("sql_log_bin_0")
    /\ \A i \in DOMAIN stmts :
          stmts[i] \in MainOps \cup RangeOps \cup ChunkOps
                       \cup {"read_start", "read_end"}

\* a run with NoLogBin that executed a chunk and ended cleanly
C26_Witness ==
    /\ cfg.NoLogBin
    /\ Issued("chunk")
    /\ Exited
    /\ exitCode = <<0>>

\* the statements of the loop that the order of an iteration is about
LoopOps == {"probe", "set_end", "overflow", "chunk", "advance"}
IsLoopOp(s) == s \in LoopOps
LoopStmts == SelectSeq(stmts, IsLoopOp)

\* the statement at position i was answered with an error
FaultAt(i) == \E f \in DOMAIN faults : faults[f].at = i

\* C27: the loop's statements reach the server in the order probe,
\* assignment of end, overflow check (from the second iteration on), chunk
\* statement, copy of end into start, and again probe; the copy of end into
\* start directly follows a chunk statement that was answered without
\* error.
C27_StatementOrder ==
    /\ LoopStmts # <<>> => LoopStmts[1] = "probe"
    /\ \A i \in 1..(Len(LoopStmts) - 1) :
          LET first == \A j \in 1..i : LoopStmts[j] # "advance"
          IN  LoopStmts[i + 1] =
                 CASE LoopStmts[i] = "probe"    -> "set_end"
                   [] LoopStmts[i] = "set_end"  ->
                         IF first THEN "chunk" ELSE "overflow"
                   [] LoopStmts[i] = "overflow" -> "chunk"
                   [] LoopStmts[i] = "chunk"    -> "advance"
                   [] LoopStmts[i] = "advance"  -> "probe"
    /\ \A i \in At("advance") :
          /\ i > 1
          /\ stmts[i - 1] = "chunk"
          /\ ~FaultAt(i - 1)

\* a finished run of three iterations or more, the last one ended by the
\* overflow check
C27_Witness ==
    /\ Done
    /\ Len(chunks) >= 2
    /\ Cardinality(At("overflow")) >= 2

\* C28: a run of ChunkUpdate that finishes without a failed statement has
\* executed a chunk statement; no overflow check comes before the first
\* chunk statement; the statement about to be executed is firstQuery
\* exactly when no chunk statement was executed before, and restQuery
\* otherwise.
C28_FirstPass ==
    /\ (Done /\ faults = <<>>) => Len(chunks) >= 1
    /\ \A i \in At("overflow") : \E j \in 1..(i - 1) : stmts[j] = "chunk"
    /\ firstQuery # restQuery
    /\ pc = "execute" =>
          ChunkQuery = (IF chunks = <<>> THEN firstQuery ELSE restQuery)

\* a run that finished after a first-round and a later chunk statement
C28_Witness ==
    /\ Done
    /\ faults = <<>>
    /\ Len(chunks) >= 2

\* the overflow check was the last statement and it was answered
OverflowAnswered ==
    /\ stmts # <<>>
    /\ stmts[Len(stmts)] = "overflow"
    /\ ~FaultAt(Len(stmts))
    /\ pc \in {"done", "execute"}

\* C29 (as stated): after the first iteration the loop breaks before the
\* chunk statement exactly when start >= max in the lexicographic order
\* over all key columns.
C29_OverflowLexicographic ==
    OverflowAnswered => (pc = "done" <=> LexLeq(sessMax, sessStart))

\* C30 (as stated): on entry to every iteration after the first the whole
\* start vector equals the end vector of the iteration before.
C30_WindowAdvance ==
    (pc = "probe" /\ ~firstRound /\ ends # <<>>) =>
        sessStart = ends[Len(ends)]

\* ------------------------------------------------- two runs, one after
\* the other
\* The engine is run twice over the same table and configuration.  When the
\* first run has ended its statements and result are recorded in firstRun,
\* the session starts anew and the reserved options take other values.

\* values of the three options nothing consults
ReservedSpace ==
    [SleepRatio : {0, 1}, TerminateOnNotFound : BOOLEAN,
     SkipRetryChunk : BOOLEAN]

\* what a run leaves behind: statements sent, driver errors met, and the
\* result of ChunkUpdate
Outcome ==
    [ran |-> TRUE, stmts |-> stmts, faults |-> faults, err |-> err,
     pc |-> pc, chunks |-> chunks, totalAffected |-> totalAffected,
     reserved |-> reserved]

\* the second invocation: a fresh session, same table and Config but for
\* the reserved options
Restart ==
    /\ Halted
    /\ ~firstRun.ran
    /\ firstRun' = Outcome
    /\ reserved' \in ReservedSpace \ {reserved}
    /\ pc' = "range_min"
    /\ sessMin' = Unset
    /\ sessMax' = Unset
    /\ sessStart' = Unset
    /\ sessEnd' = Unset
    /\ minVal' = 0
    /\ maxVal' = 0
    /\ firstRound' = TRUE
    /\ probeRow' = NoRow
    /\ overflow' = FALSE
    /\ totalAffected' = 0
    /\ iter' = 0
    /\ chunks' = <<>>
    /\ ends' = <<>>
    /\ stmts' = <<>>
    /\ faults' = <<>>
    /\ err' = "nil"
    /\ UNCHANGED <<table, cfg, opts, schema, tableName, connected,
                   unlockDeferred, exitCode, output, selected, reconnects>>

\* small tables, no seeds, all rows in one chunk or one row a chunk
InitTwin ==
    /\ Init
    /\ NoSeeds
    /\ cfg.UniqueKeyType = "integer"
    /\ cfg.ChunkSize <= 1
    /\ Cardinality(table) <= 2

NextTwin == Next \/ Restart

SpecTwin == InitTwin /\ [][NextTwin]_vars

\* the second run has ended and the driver failed in it where it failed in
\* the first
SecondRunEnded ==
    /\ firstRun.ran
    /\ Halted
    /\ faults = firstRun.faults

EndInstalled == pc \in {"display", "overflow", "execute", "advance"}

\* min <= start <= end <= max, lexicographically
Ordered ==
    /\ LexLeq(sessMin, sessStart)
    /\ LexLeq(sessStart, sessEnd)
    /\ LexLeq(sessEnd, sessMax)

\* C31 (as stated): in every iteration, once the end is installed,
\* min <= start <= end <= max, whatever the table, the key arity and the
\* configuration, --start-with and --end-with included.
C31_Original == EndInstalled => Ordered

\* C31 (amended): the same, for runs whose range initialization left
\* min <= max.
C31_Amended == (EndInstalled /\ LexLeq(sessMin, sessMax)) => Ordered

\* a later iteration of a seeded run, start above min
C31_Witness ==
    /\ EndInstalled
    /\ cfg.StartWith.kind = "int"
    /\ LexLeq(sessMin, sessMax)
    /\ LexLess(sessMin, sessStart)
    /\ iter >= 2

\* C32 (as stated): the chunk statement of an iteration after the first
\* targets exactly the rows with start < key <= end, the one of the first
\* iteration exactly the rows with min <= key <= end.
C32_ChunkWorkSet ==
    (pc = "advance" /\ chunks # <<>>) =>
        chunks[Len(chunks)] =
            {r \in table :
                /\ IF firstRound THEN LexLeq(sessMin, r)
                                 ELSE LexLess(sessStart, r)
                /\ LexLeq(r, sessEnd)}

\* rows the probe's predicate admits, before the limit
Candidates == {r \in table : LexLess(sessStart, r) /\ LexLeq(r, sessMax)}

\* rows with a key in the half-open window (start, end]
Window == {r \in table : LexLess(sessStart, r) /\ LexLeq(r, sessEnd)}

\* C33 (as stated): the probed row is the last of at most chunkSize rows
\* above start in the first iteration and of at most chunkSize + 1 in a
\* later one; in a later iteration whose probe found a full candidate set,
\* exactly chunkSize rows have a key in (start, end] once end is installed.
C33_ProbeLimit ==
    /\ (pc = "install_end" /\ probeRow # NoRow) =>
          Cardinality({r \in Candidates : LexLeq(r, probeRow)})
              <= (IF firstRound THEN cfg.ChunkSize ELSE cfg.ChunkSize + 1)
    /\ (/\ EndInstalled
        /\ ~firstRound
        /\ probeRow # NoRow
        /\ Cardinality(Candidates) >= cfg.ChunkSize + 1)
          => Cardinality(Window) = cfg.ChunkSize

\* the running iteration's probe returned no row and its end is installed
NoRowIteration == EndInstalled /\ probeRow = NoRow

\* the end installed by the iteration before the running one
PreviousEnd == ends[Len(ends) - 1]

\* C34: in an iteration whose probe returned no row the end is max, in
\* every column, and no error is raised for it; the iteration after an
\* iteration that installed max as its end (as every iteration without a
\* probed row does) executes no chunk statement and its overflow check
\* ends the loop, so the chunk statement of the iteration without a probed
\* row is the last one.
C34_NoRowPolicy ==
    /\ NoRowIteration =>
          /\ sessEnd = sessMax
          /\ ends[Len(ends)] = sessMax
          /\ err = "nil"
    /\ (pc = "install_end" /\ probeRow = NoRow) => err = "nil"
    /\ (Len(ends) >= 2 /\ PreviousEnd = sessMax) =>
          /\ pc # "execute"
          /\ OverflowAnswered => Done

\* the loop has ended one iteration after an iteration whose probe found
\* no row between start and max, start being below max
C34_Witness ==
    /\ Done
    /\ Len(ends) >= 3
    /\ PreviousEnd = sessMax
    /\ LexLess(ends[1], sessMax)
    /\ {r \in table : LexLess(ends[1], r) /\ LexLeq(r, sessMax)} = {}

\* ------------------------------------------------------------- float64
\* The progress arithmetic is done in float64.  A positive float64 is a
\* record [m, e]: m its 53 significand bits, most significant first and
\* m[1] = 1, and e the exponent of m[1]; every result is rounded to nearest,
\* ties to even.  The operands here are far from the exponent limits.
Significand == 53

\* bits handled at a time: a product stays below 2^31
Limb == 18

RECURSIVE Exp2(_)
Exp2(k) == IF k = 0 THEN 1 ELSE 2 * Exp2(k - 1)

Pow2 == [k \in 0..Limb |-> Exp2(k)]

\* binary digits of n, most significant first, no leading zero
RECURSIVE Bits(_)
Bits(n) == IF n = 0 THEN <<>> ELSE Append(Bits(n \div 2), n % 2)

\* the w low binary digits of n, most significant first
WidthBits(n, w) == [i \in 1..w |-> (n \div Pow2[w - i]) % 2]

\* the number a short bit sequence stands for
RECURSIVE BitsValue(_)
BitsValue(b) ==
    IF b = <<>> THEN 0
    ELSE 2 * BitsValue(SubSeq(b, 1, Len(b) - 1)) + b[Len(b)]

Zeros(k) == IF k <= 0 THEN <<>> ELSE [i \in 1..k |-> 0]

\* b + 1 for a bit sequence that holds a zero: the last zero becomes one
\* and the ones after it zero
Increment(b) ==
    LET z == CHOOSE i \in DOMAIN b :
                 b[i] = 0 /\ \A j \in (i + 1)..Len(b) : b[j] = 1
    IN  [i \in DOMAIN b |-> IF i < z THEN b[i] ELSE IF i = z THEN 1 ELSE 0]

\* rounding of the exact value b * 2^(e - Len(b) + 1), b[1] = 1, followed
\* by a non-zero tail when sticky, to the nearest float64, ties to even
RoundToNearestEven(b, sticky, e) ==
    LET wide == b \o Zeros(Significand + 1 - Len(b))
        keep == SubSeq(wide, 1, Significand)
        half == wide[Significand + 1] = 1
        tail == sticky \/ \E i \in (Significand + 2)..Len(wide) : wide[i] = 1
        up   == half /\ (tail \/ keep[Significand] = 1)
    IN  IF ~up THEN [m |-> keep, e |-> e]
        ELSE IF \A i \in 1..Significand : keep[i] = 1
             THEN [m |-> <<1>> \o Zeros(Significand - 1), e |-> e + 1]
             ELSE [m |-> Increment(keep), e |-> e]

\* the least k with n * 2^k >= d
RECURSIVE Shift(_, _)
Shift(n, d) == IF n >= d THEN 0 ELSE 1 + Shift(2 * n, d)

\* float64(n) / float64(d) for integers 0 < n, 0 < d < 2^12, n < 2^12 * d:
\* long division, three limbs of quotient bits after the integer part
Div(n, d) ==
    LET k  == Shift(n, d)
        ib == Bits((n * Exp2(k)) \div d)
        r0 == (n * Exp2(k)) % d
        r1 == (r0 * Pow2[Limb]) % d
        r2 == (r1 * Pow2[Limb]) % d
        r3 == (r2 * Pow2[Limb]) % d
        q  == ib \o WidthBits((r0 * Pow2[Limb]) \div d, Limb)
                 \o WidthBits((r1 * Pow2[Limb]) \div d, Limb)
                 \o WidthBits((r2 * Pow2[Limb]) \div d, Limb)
    IN  RoundToNearestEven(q, r3 # 0, Len(ib) - 1 - k)

\* x * float64(c) for an integer 0 < c < 2^12: the significand is
\* multiplied limb by limb from the right
Mul(x, c) ==
    LET top == BitsValue(SubSeq(x.m, 1, Significand - 2 * Limb))
        mid == BitsValue(SubSeq(x.m, Significand - 2 * Limb + 1,
                                     Significand - Limb))
        low == BitsValue(SubSeq(x.m, Significand - Limb + 1, Significand))
        pl  == low * c
        pm  == mid * c + pl \div Pow2[Limb]
        pt  == top * c + pm \div Pow2[Limb]
        p   == Bits(pt) \o WidthBits(pm % Pow2[Limb], Limb)
                        \o WidthBits(pl % Pow2[Limb], Limb)
    IN  RoundToNearestEven(p, FALSE, x.e + Len(p) - Significand)

\* int(x): the integer part
Trunc(x) == IF x.e < 0 THEN 0 ELSE BitsValue(SubSeq(x.m, 1, x.e + 1))

\* --------------------------------------------------------------- progress
\* toFloat of a value read from an integer session variable, and the
\* difference of two of them: exact below 2^53
\* progress := 0; if all three values are there and maxF > minF,
\* progress = int((startF - minF) / (maxF - minF) * 100)
Progress(minV, maxV, startV) ==
    IF minV = Nil \/ maxV = Nil \/ startV = Nil THEN 0
    ELSE IF maxV > minV
         THEN IF startV = minV THEN 0
              ELSE IF startV > minV
                   THEN Trunc(Mul(Div(startV - minV, maxV - minV), 100))
                   ELSE 0 - Trunc(Mul(Div(minV - startV, maxV - minV), 100))
         ELSE 0

\* the percentage of the running iteration's progress line
Printed == Progress(minVal, maxVal, ReadValue(sessStart))

\* widest key range of the progress runs
MaxSpan == 50

\* runs over three rows of a single integer key: the first, one in
\* between, and the last, one row a chunk
ProgressTables ==
    {{<<1>>, <<1 + k>>, <<1 + span>>} : k \in 1..(MaxSpan - 1),
                                        span \in 2..MaxSpan}

InitProgress ==
    /\ cfg \in {c \in Configs : /\ c.CountColumnsInUniqueKey = 1
                                /\ c.UniqueKeyType = "integer"
                                /\ c.ChunkSize = 1
                                /\ c.StartWith.kind = "none"
                                /\ c.EndWith.kind = "none"}
    /\ table \in {t \in ProgressTables : Cardinality(t) = 3}
    /\ pc = "range_min"
    /\ sessMin = Unset
    /\ sessMax = Unset
    /\ sessStart = Unset
    /\ sessEnd = Unset
    /\ minVal = 0
    /\ maxVal = 0
    /\ firstRound = TRUE
    /\ probeRow = NoRow
    /\ overflow = FALSE
    /\ totalAffected = 0
    /\ iter = 0
    /\ chunks = <<>>
    /\ ends = <<>>
    /\ stmts = <<>>
    /\ faults = <<>>
    /\ err = "nil"
    /\ opts = [execute |-> <<"DELETE FROM t WHERE ", "GO_CHUNK", "(", "t", ")",
                             " AND flag=0">>,
               database |-> <<"db">>, forceColumn |-> <<>>,
               skipLock |-> TRUE]
    /\ schema = [present |-> TRUE, keyRows |-> <<>>]
    /\ tableName = <<"t">>
    /\ connected = TRUE
    /\ unlockDeferred = FALSE
    /\ exitCode = NotExited
    /\ output = ""
    /\ selected = NoKey
    /\ reconnects = <<>>
    /\ reserved = DefaultReserved
    /\ firstRun = NotRun

NextProgress == Next

SpecProgress == InitProgress /\ [][NextProgress]_vars

\* the iteration's progress line has been computed and the iteration is
\* not over, or the loop has just ended on this iteration's overflow check
ProgressShown == pc \in {"overflow", "execute", "advance"} \/ Done

\* the integer part of 100 * (start - min) / (max - min) over the first key
\* column, 0 when max <= min
ExactPercent ==
    IF maxVal > minVal
    THEN (100 * (ReadValue(sessStart) - minVal)) \div (maxVal - minVal)
    ELSE 0

\* C35 (as stated): the printed percentage is the integer part of
\* 100 * (start - min) / (max - min) over the first key column when
\* max > min and 0 otherwise; it lies in 0..100; it does not decrease from
\* one iteration to the next; and it is 100 on the iteration that ends a
\* completed run with max > min.
C35_Progress ==
    /\ [](ProgressShown =>
             /\ Printed = ExactPercent
             /\ Printed \in 0..100
             /\ (Done /\ maxVal > minVal) => Printed = 100)
    /\ [][(pc = "advance" /\ pc' = "probe") =>
             Progress(minVal, maxVal, ReadValue(sessStart'))
                 >= Progress(minVal, maxVal, ReadValue(sessStart))]_vars

\* what range initialization assigns to min and max: the seed, or the first
\* row of the table in ascending and in descending key order
InstalledMin ==
    IF cfg.StartWith.kind = "int" THEN <<cfg.StartWith.val>>
    ELSE AscFirst(table)
InstalledMax ==
    IF cfg.EndWith.kind = "int" THEN <<cfg.EndWith.val>>
    ELSE DescFirst(table)

\* C36: no step of ChunkUpdate changes the min or max variables; in every
\* iteration and at loop exit they hold what range initialization
\* installed, and the min and max read before the loop equal the first
\* column of the variables on the server.
C36_MinMaxFrozen ==
    /\ []((InLoop \/ Done) =>
             /\ sessMin = InstalledMin
             /\ sessMax = InstalledMax
             /\ minVal = sessMin[1]
             /\ maxVal = sessMax[1])
    /\ [][(pc \notin {"range_min", "range_max"}) =>
             /\ sessMin' = sessMin
             /\ sessMax' = sessMax]_vars

\* a seeded run that ended after a second chunk statement
C36_Witness ==
    /\ Done
    /\ cfg.StartWith.kind = "int"
    /\ Len(chunks) >= 2

\* C37: for a single-column key every key targeted by the chunk statement
\* of a later iteration is above every key targeted by the chunk statement
\* of an earlier one, and the copy of end into start that ends an iteration
\* whose probe returned a row moves start strictly upwards.
C37_StrictlyOrdered ==
    /\ [](SingleKey =>
             \A i \in DOMAIN chunks : \A j \in DOMAIN chunks :
                 i < j => \A r \in chunks[i] : \A q \in chunks[j] :
                              r[1] < q[1])
    /\ [][(/\ SingleKey
           /\ pc = "advance"
           /\ pc' = "probe"
           /\ probeRow # NoRow) => sessStart[1] < sessStart'[1]]_vars

\* a finished single-column run with rows targeted in two iterations
C37_Witness ==
    /\ SingleKey
    /\ Done
    /\ Len(chunks) >= 2
    /\ chunks[1] # {}
    /\ chunks[2] # {}

\* range initialization on a non-empty table with a single integer key has
\* left min above max
Inverted ==
    /\ SingleKey
    /\ cfg.UniqueKeyType = "integer"
    /\ table # {}
    /\ pc \notin {"range_min", "range_max"}
    /\ sessMin # Unset
    /\ sessMax # Unset
    /\ sessMax[1] < sessMin[1]

\* C38: on an inverted range the loop makes at most two iterations, no
\* chunk statement targets a row, the run does not stop before it has
\* ended, and unless the driver fails it ends without an error.
C38_InvertedRange ==
    Inverted =>
        /\ iter <= 2
        /\ AllTargeted = {}
        /\ Halted \/ ENABLED Next
        /\ faults = <<>> => pc \notin {"failed", "norange"}
        /\ Done => err = "nil" /\ iter = 2

\* a run with --start-with above --end-with and rows on both sides of
\* them has ended
C38_Witness ==
    /\ Inverted
    /\ Done
    /\ Len(chunks) = 1
    /\ \E r \in table : r[1] < sessMax[1]
    /\ \E r \in table : r[1] > sessMin[1]

\* ----------------------------------------------- sub-statement seeds
\* Runs of the engine on a single integer key whose --start-with and
\* --end-with are absent, a literal, or a statement; a panic unwinds
\* runChunkUpdate.
SubSeeds ==
    {[kind |-> k, val |-> IF k = "stmt" THEN 2 ELSE 0] : k \in SubSeedKinds}

SeedChoices ==
    {[kind |-> "none", val |-> 0], [kind |-> "int", val |-> 2]} \cup SubSeeds

InitSeed ==
    /\ cfg \in [UniqueKeyColumnNames : {<<"id">>},
                CountColumnsInUniqueKey : {1},
                UniqueKeyType : {"integer"},
                ChunkSize : {1},
                StartWith : SeedChoices,
                EndWith : SeedChoices,
                NoLogBin : BOOLEAN]
    /\ table \in SUBSET KeySpace(1)
    /\ pc = "range_min"
    /\ sessMin = Unset
    /\ sessMax = Unset
    /\ sessStart = Unset
    /\ sessEnd = Unset
    /\ minVal = 0
    /\ maxVal = 0
    /\ firstRound = TRUE
    /\ probeRow = NoRow
    /\ overflow = FALSE
    /\ totalAffected = 0
    /\ iter = 0
    /\ chunks = <<>>
    /\ ends = <<>>
    /\ stmts = <<>>
    /\ faults = <<>>
    /\ err = "nil"
    /\ opts = [execute |-> <<"DELETE FROM t WHERE ", "GO_CHUNK", "(", "t", ")",
                             " AND flag=0">>,
               database |-> <<"db">>, forceColumn |-> <<>>,
               skipLock |-> TRUE]
    /\ schema = [present |-> TRUE, keyRows |-> <<>>]
    /\ tableName = <<"t">>
    /\ connected = TRUE
    /\ unlockDeferred = FALSE
    /\ exitCode = NotExited
    /\ output = ""
    /\ selected = NoKey
    /\ reconnects = <<>>
    /\ reserved = DefaultReserved
    /\ firstRun = NotRun

NextSeed == Next \/ Panic

SpecSeed == InitSeed /\ [][NextSeed]_vars

\* the sub-statement given as --start-with (--end-with) was answered with a
\* row that lacks the start_with (end_with) column or holds a value in it
\* that is not an integer
BadStartAnswered ==
    /\ cfg.StartWith.kind \in {"stmt_missing", "stmt_text"}
    /\ Issued("start_with")
    /\ ~FaultAt(Len(stmts))
BadEndAnswered ==
    /\ cfg.EndWith.kind \in {"stmt_missing", "stmt_text"}
    /\ Issued("end_with")
    /\ ~FaultAt(Len(stmts))

\* C39 (as stated): when the sub-statement of --start-with (--end-with)
\* answers with a row without the start_with (end_with) column, or with a
\* value in it that is not an integer, GetUniqueKeyRange returns an error:
\* the run does not end abnormally and min (max) is not assigned.
C39_SubSeedFailsCleanly ==
    /\ pc # "panic"
    /\ exitCode # <<2>>
    /\ BadStartAnswered => pc = "failed" /\ err # "nil" /\ sessMin = Unset
    /\ BadEndAnswered => pc = "failed" /\ err # "nil" /\ sessMax = Unset
====
